---- MODULE Spec2Model ----
(***************************************************************************)
(* SD card driver over SPI (app/src/sdcard.c): the command layer           *)
(* SD_SendCommand / SD_GetResponseR3orR7, the initialisation sequence      *)
(* SD_Init and the block transfers SD_ReadSectors / SD_WriteSectors.       *)
(*                                                                         *)
(* One step of the model is one call the driver makes to a collaborator    *)
(* (SPI1_Select, SPI1_Deselect, SPI1_Transmit, SPI1_ReadBuffer,            *)
(* SPI1_SendBuffer, TIMER_Delay) together with the assignments around it.  *)
(* The byte the card returns on an exchange is an input of the step.       *)
(*                                                                         *)
(* A uint32_t is a pair <<hi, lo>> of 16-bit halves, so that values above  *)
(* 2^31 and the wrap-around of sector * 512 are represented exactly.       *)
(* A 512-byte data block is an opaque value (Blank or a payload id).       *)
(***************************************************************************)
EXTENDS Integers, Sequences, FiniteSets

\* ---------------------------------------------------------------- constants
SD_GO_IDLE_STATE        == 0
SD_SEND_IF_COND         == 8
SD_STOP_TRANSMISSION    == 12
SD_READ_MULTIPLE_BLOCK  == 18
SD_WRITE_MULTIPLE_BLOCK == 25
SD_APP_CMD              == 55
SD_READ_OCR             == 58
SD_ACMD_SEND_OP_COND    == 41
SD_IF_COND_CHECK        == 170
SD_IF_COND_VOLT         == 256
SD_TOKEN_SBR_MBR_SBW    == 254
FILLER                  == 255
TOKEN_MBW               == 252
TOKEN_STOP_TRAN         == 253
CRC_CMD0                == 149
CRC_CMD8                == 135
CMD_PREFIX              == 64
OCR_CCS_MASK            == 64
SECTOR_SIZE             == 512
SYNC_BYTES              == 20
INIT_POLLS              == 10
DELAY_ACMD41            == 20
DELAY_WRITE             == 5

\* ------------------------------------------------------------------- bounds
MaxCount == 2      \* largest block count a caller passes
MaxWait  == 5      \* most bytes a wait loop receives before the awaited byte
MaxRetry == 2      \* most non-zero statuses a card gives to WRITE_MULTIPLE_BLOCK in a call

\* -------------------------------------------------------------- uint helpers
U16 == 65536

\* bitwise OR / AND of two naturals
RECURSIVE BitOr(_, _)
BitOr(a, b) ==
  IF a = 0 THEN b
  ELSE IF b = 0 THEN a
  ELSE (IF (a % 2 = 1) \/ (b % 2 = 1) THEN 1 ELSE 0) + 2 * BitOr(a \div 2, b \div 2)

RECURSIVE BitAnd(_, _)
BitAnd(a, b) ==
  IF a = 0 \/ b = 0 THEN 0
  ELSE (IF (a % 2 = 1) /\ (b % 2 = 1) THEN 1 ELSE 0) + 2 * BitAnd(a \div 2, b \div 2)

\* conversion to uint8_t
U8(x) == x % 256

\* a small natural as uint32_t
U32(n) == <<(n \div U16) % U16, n % U16>>

\* (variant: the product saturates at 2^32 - 1 instead of wrapping)
Mul512Saturating(x) ==
  IF x[1] >= 128 THEN <<U16 - 1, U16 - 1>>
  ELSE <<x[1] * 512 + (x[2] \div 128), (x[2] % 128) * 512>>

\* uint32_t x * 512, in 32-bit unsigned arithmetic (a left shift by 9)
Mul512(x) == <<((x[1] % 128) * 512 + (x[2] \div 128)) % U16, (x[2] % 128) * 512>>

\* args >> sh, converted to uint8_t, for sh in {24, 16, 8, 0}
ShiftByte(x, sh) ==
  CASE sh = 24 -> U8(x[1] \div 256)
    [] sh = 16 -> U8(x[1])
    [] sh = 8  -> U8(x[2] \div 256)
    [] sh = 0  -> U8(x[2])

\* ---------------------------------------------------------------- the state
VARIABLES
  pc,        \* position of the driver in SD_Init / SD_ReadSectors / SD_WriteSectors
  fn,        \* callee being executed: "none", "cmd" (SD_SendCommand), "r3r7"
  sub,       \* next exchange of the callee (1-based)
  cmd,       \* SD_SendCommand: parameter cmd
  args,      \* SD_SendCommand: parameter args
  ret,       \* resp.responseR1 / status: value returned by the last SD_SendCommand
  frame,     \* bytes transmitted so far by the current SD_SendCommand call
  lastRx,    \* byte received in the latest exchange on the link
  isSDHC,    \* static uint8_t isSDHC
  selected,  \* chip select asserted
  i,         \* SD_Init: loop counter i
  buf,       \* SD_Init: buf[0..3]
  sector,    \* transfer: parameter sector
  count,     \* transfer: parameter count
  off,       \* transfer: byte offset of the moving buffer pointer from its start
  rbuf,      \* read: the caller's buffer, as blocks
  wbuf,      \* write: the caller's buffer, as blocks
  rv,        \* <<v>>: the last transfer call returned v; <<>>: none has returned
  hist,      \* observations of the current call (counters, see HistInit)
  ready,     \* some SD_Init run has assigned the capacity flag
  card,      \* the card: answering mode, capacity class, address pointer, storage
  rt         \* the round-trip caller: its phase and the transfer it made

vars == <<pc, fn, sub, cmd, args, ret, frame, lastRx, isSDHC, selected, i, buf,
          sector, count, off, rbuf, wbuf, rv, hist, ready, card, rt>>

\* ----------------------------------------------------------------- the card
\* bytes a card may put on the link
RxBytes == {0, 1, SD_TOKEN_SBR_MBR_SBW}

\* 4-byte R3/R7 payloads a card may send: the interface-condition echo, and
\* operation-conditions registers with and without the capacity bit
R7_ECHO      == <<0, 0, 1, 170>>
RespWords    == {R7_ECHO, <<128, 255, 128, 0>>, <<192, 255, 128, 0>>, <<64, 255, 128, 0>>}

\* data blocks: Blank is what a buffer or an unwritten sector holds
Blank    == "blank"
Payloads == {"p1", "p2"}

\* sector indices a caller passes: 0, 1, 2^23 + 1
Sectors == {<<0, 0>>, <<0, 1>>, <<128, 1>>}

\* uint32 a + n for a small n
Add32(a, n) == <<(a[1] + ((a[2] + n) \div U16)) % U16, (a[2] + n) % U16>>

\* Cards that never produce a byte the driver waits for: in mode "noToken" the
\* card never sends the data token, in mode "busy" it answers 0 to every
\* exchange of a busy wait, in mode "refuse" it gives a non-zero status to
\* every WRITE_MULTIPLE_BLOCK. Against such a card a count made in a loop stops
\* at max; against every other card it is exact.
Never == {"noToken", "busy", "refuse"}
Tick(n, max) == IF card.mode \in Never /\ n >= max THEN n ELSE n + 1

\* In mode "any" the card answers any byte and any payload and stores nothing.
\* In mode "store" it stores each block written at the address of the write
\* command, advancing by one block per data token, and serves reads from the
\* address of the read command; its address unit is 1 block when it is a
\* high-capacity card and 512 bytes otherwise.
CardUnit    == IF card.hc THEN 1 ELSE SECTOR_SIZE
MemAt(a)    == IF a \in DOMAIN card.mem THEN card.mem[a] ELSE Blank
CardBlocks  == IF card.mode = "any" THEN Payloads ELSE {MemAt(card.addr)}
CardWords(c) ==
  IF card.mode = "store" /\ c = SD_READ_OCR
    THEN {w \in RespWords : (BitAnd(w[1], OCR_CCS_MASK) # 0) = card.hc}
    ELSE RespWords
CardOnCommand(c, a) ==
  IF card.mode = "store" /\ c \in {SD_READ_MULTIPLE_BLOCK, SD_WRITE_MULTIPLE_BLOCK}
    THEN [card EXCEPT !.addr = a] ELSE card
CardOnWrite(b) ==
  IF card.mode = "store"
    THEN [card EXCEPT !.mem  = [x \in DOMAIN card.mem \cup {card.addr} |->
                                  IF x = card.addr THEN b ELSE card.mem[x]],
                      !.addr = Add32(card.addr, CardUnit)]
    ELSE card
CardOnRead ==
  IF card.mode = "store" THEN [card EXCEPT !.addr = Add32(card.addr, CardUnit)] ELSE card

\* ------------------------------------------------------------- observations
HistInit ==
  [op      |-> "none",   \* the operation entered last: "init", "read" or "write"
   nExch   |-> 0,        \* exchanges made by the latest SD_SendCommand call
   nResp   |-> 0,        \* exchanges made by the latest SD_GetResponseR3orR7 call
   nPoll   |-> 0,        \* ACMD41 statuses received by the current SD_Init
   firstZero |-> 0,      \* which of them was the first equal to 0 (0: none yet)
   nSel    |-> 0,        \* SPI1_Select calls of the current operation
   nDesel  |-> 0,        \* SPI1_Deselect calls of the current operation
   unsel   |-> FALSE,    \* a byte or block went over the link while deselected
   resel   |-> FALSE,    \* SPI1_Select was called while selected
   last    |-> "none",   \* latest link action of the current operation
   nWrCmd  |-> 0,        \* WRITE_MULTIPLE_BLOCK commands sent
   nBad    |-> 0,        \* non-zero statuses received to them
   wrArgs  |-> <<>>,     \* their arguments
   nDelay  |-> 0,        \* TIMER_Delay calls
   ms      |-> 0,        \* duration of the latest TIMER_Delay
   early   |-> FALSE,    \* a data token or payload was sent before a zero status
   nWait   |-> 0,        \* exchanges of the current wait loop
   nOther  |-> 0,        \* bytes received in it that did not end it
   nPay    |-> 0,        \* payload bytes transferred for the current block
   nCrc    |-> 0,        \* exchanges made after the payload of the current block
   rx7     |-> 0,        \* byte received in the 7th exchange of the latest command
   rx8     |-> 0,        \* byte received in its 8th exchange
   S0      |-> <<0, 0>>, \* the sector index the caller passed
   respB0  |-> 0,        \* first byte received by the latest SD_GetResponseR3orR7
   ocr1B0  |-> 0,        \* first byte it received after the pre-polling READ_OCR
   log     |-> <<>>,     \* commands, responses, delays, tokens and blocks, in order
   rdBad   |-> FALSE,    \* the status of READ_MULTIPLE_BLOCK was not 0
   allOdd  |-> TRUE,     \* no diagnostic check of the current SD_Init has passed
   flag0   |-> 0,        \* the capacity flag when the operation was entered
   preReady  |-> FALSE,  \* a block-transfer command was sent before any SD_Init got ready
   returned  |-> FALSE,  \* some SD_Init call has returned
   earlyCall |-> FALSE]  \* a transfer was called before any SD_Init call had returned

\* an entry of the log: a kind, a number and a uint32_t
\*   <<"cmd", c, a>>           SD_SendCommand(c, a) sends its first byte
\*   <<"resp", n, 0>>          SD_GetResponseR3orR7 has read its n bytes
\*   <<"delay", t, 0>>         TIMER_Delay(t)
\*   <<"tx", b, 0>>            a token or filler byte b of the write data phase
\*   <<"rd", o, 0>>, <<"wr", o, 0>>   a block read to / sent from buffer offset o
Log(h, kind, n, a) ==
  IF card.mode = "refuse" /\ Len(h.log) >= 2 * (MaxRetry + 1) THEN h
  ELSE [h EXCEPT !.log = Append(@, <<kind, n, a>>)]

\* SPI1_Transmit: one byte out, one byte in
Exch(h) ==
  [h EXCEPT !.unsel = @ \/ ~selected, !.last = "xchg"]
\* SPI1_ReadBuffer / SPI1_SendBuffer of len bytes
Xfer(h, len) ==
  [h EXCEPT !.unsel = @ \/ ~selected, !.last = "xfer", !.nPay = len]
\* SPI1_Select / SPI1_Deselect
Sel(h)   == [h EXCEPT !.nSel = @ + 1, !.resel = @ \/ selected, !.last = "select"]
Desel(h) == [h EXCEPT !.nDesel = @ + 1, !.last = "deselect"]
\* TIMER_Delay(ms)
Delay(h, t) ==
  [Log(h, "delay", t, <<0, 0>>) EXCEPT !.nDelay = Tick(@, MaxRetry + 1), !.ms = t]

\* observations kept from one operation to the next
NewOp(h, name) ==
  [HistInit EXCEPT !.op = name, !.flag0 = isSDHC,
                   !.preReady = h.preReady, !.returned = h.returned,
                   !.earlyCall = h.earlyCall \/ (name \in {"read", "write"} /\ ~h.returned)]

\* --------------------------------------------------------- SD_SendCommand
\* (variant: the case for SD_SEND_IF_COND is missing)
ChecksumNoIfCond(c) ==
  CASE c = SD_GO_IDLE_STATE -> CRC_CMD0
    [] OTHER                -> FILLER

\* the checksum byte chosen by the switch on cmd
Checksum(c) ==
  CASE c = SD_GO_IDLE_STATE -> CRC_CMD0
    [] c = SD_SEND_IF_COND  -> CRC_CMD8
    [] OTHER                -> FILLER

\* the byte SD_SendCommand(c, a) transmits in its k-th exchange
CmdTxByte(c, a, k) ==
  CASE k = 1 -> U8(BitOr(CMD_PREFIX, c))
    [] k = 2 -> ShiftByte(a, 24)
    [] k = 3 -> ShiftByte(a, 16)
    [] k = 4 -> ShiftByte(a, 8)
    [] k = 5 -> ShiftByte(a, 0)
    [] k = 6 -> Checksum(c)
    [] OTHER -> FILLER

\* (variant: the byte received with the first filler is returned)
CmdStatusFirst(rx7, rx8) == rx7

\* the value SD_SendCommand returns, given the bytes received in its 7th and
\* 8th exchanges
CmdStatus(rx7, rx8) == rx8

\* the status the caller's diagnostic check compares with: 0x01 before the
\* polling loop, 0x00 after it (n: ACMD41 statuses received so far)
ExpectedStatus(c, n) ==
  IF c = SD_READ_MULTIPLE_BLOCK \/ (c = SD_READ_OCR /\ n > 0) THEN 0 ELSE 1

\* if (resp.responseR1 != ...) dprint(...): the commands whose status the
\* caller checks, and the outcome of the check
StatusChecked(c) ==
  c \in {SD_GO_IDLE_STATE, SD_SEND_IF_COND, SD_READ_OCR, SD_READ_MULTIPLE_BLOCK}
StatusOk(c, st, n) == StatusChecked(c) => st = ExpectedStatus(c, n)

\* if ((buf[3] != SD_IF_COND_CHECK) || (buf[2] != (SD_IF_COND_VOLT>>8))) dprint(...)
EchoOk(b) == b[4] = SD_IF_COND_CHECK /\ b[3] = SD_IF_COND_VOLT \div 256

\* (variant: a failed diagnostic check halts the driver)
AfterCheckFatal(label, ok) == IF ok THEN label ELSE "halt"

\* where the caller goes on after a diagnostic check: a failed check prints a
\* message and falls through
AfterCheck(label, ok) == label

\* the caller's call: parameters are passed, nothing is exchanged yet
Call(c, a) ==
  /\ fn' = "cmd" /\ sub' = 1 /\ cmd' = c /\ args' = a /\ frame' = <<>>

\* exchanges 1..7: the frame and the first filler; what is received is dropped
SendCommandByte ==
  /\ fn = "cmd" /\ sub \in 1..7
  /\ \E rx \in RxBytes :
       /\ lastRx' = rx
       /\ frame' = Append(frame, CmdTxByte(cmd, args, sub))
       /\ sub' = sub + 1
       /\ hist' = [(IF sub = 1 THEN Log(Exch(hist), "cmd", cmd, args) ELSE Exch(hist))
                   EXCEPT
                     !.nExch = @ + 1,
                     !.preReady = @ \/ (sub = 1 /\ ~ready /\
                        cmd \in {SD_READ_MULTIPLE_BLOCK, SD_WRITE_MULTIPLE_BLOCK}),
                     !.nWrCmd = IF sub = 1 /\ cmd = SD_WRITE_MULTIPLE_BLOCK
                                  THEN Tick(@, MaxRetry + 1) ELSE @,
                     !.wrArgs = IF sub = 1 /\ cmd = SD_WRITE_MULTIPLE_BLOCK
                                     /\ Tick(Len(@), MaxRetry + 1) # Len(@)
                                  THEN Append(@, args) ELSE @]
       /\ card' = IF sub = 6 THEN CardOnCommand(cmd, args) ELSE card
  /\ UNCHANGED <<pc, fn, cmd, args, ret, isSDHC, selected, i, buf, sector, count,
                 off, rbuf, wbuf, rv, ready, rt>>

\* exchange 8: the second filler; the byte received is returned
SendCommandStatus ==
  /\ fn = "cmd" /\ sub = 8
  /\ \E rx \in RxBytes :
       /\ (cmd = SD_WRITE_MULTIPLE_BLOCK /\ hist.nBad >= MaxRetry
             /\ card.mode # "refuse") => rx = 0
       /\ (cmd = SD_WRITE_MULTIPLE_BLOCK /\ card.mode = "refuse") => rx # 0
       /\ lastRx' = rx
       /\ ret' = CmdStatus(lastRx, rx)
       /\ hist' = [Exch(hist) EXCEPT
                     !.nExch = @ + 1,
                     !.rx7  = lastRx,
                     !.rx8  = rx,
                     !.nPoll = IF cmd = SD_ACMD_SEND_OP_COND THEN @ + 1 ELSE @,
                     !.firstZero = IF cmd = SD_ACMD_SEND_OP_COND /\ rx = 0 /\ @ = 0
                                     THEN hist.nPoll + 1 ELSE @,
                     !.nBad = IF cmd = SD_WRITE_MULTIPLE_BLOCK /\ rx # 0
                                THEN Tick(@, MaxRetry + 1) ELSE @,
                     !.rdBad = IF cmd = SD_READ_MULTIPLE_BLOCK THEN rx # 0 ELSE @,
                     !.allOdd = @ /\ (hist.op = "init" =>
                                    /\ StatusChecked(cmd) => ~StatusOk(cmd, rx, hist.nPoll)
                                    /\ cmd = SD_APP_CMD => rx \notin {0, 1})]
       /\ pc' = AfterCheck(pc, StatusOk(cmd, rx, hist.nPoll))
  /\ frame' = Append(frame, CmdTxByte(cmd, args, sub))
  /\ fn' = "none" /\ sub' = 0
  /\ UNCHANGED <<cmd, args, isSDHC, selected, i, buf, sector, count, off,
                 rbuf, wbuf, rv, ready, card, rt>>

\* ---------------------------------------------------- SD_GetResponseR3orR7
\* buf[i++] = SPI1_Transmit(0xff), four times
GetResponseByte ==
  /\ fn = "r3r7" /\ sub \in 1..4
  /\ \E w \in CardWords(cmd) :
       /\ \A k \in 1..(sub - 1) : w[k] = buf[k]
       /\ lastRx' = w[sub]
       /\ buf' = [buf EXCEPT ![sub] = w[sub]]
  /\ hist' = [(IF sub = 4 THEN Log(Exch(hist), "resp", hist.nResp + 1, <<0, 0>>)
                           ELSE Exch(hist))
              EXCEPT
                !.nResp  = @ + 1,
                !.respB0 = IF sub = 1 THEN lastRx' ELSE @,
                !.ocr1B0 = IF sub = 1 /\ pc = "i_poll" THEN lastRx' ELSE @,
                !.allOdd = @ /\ ~(sub = 4 /\ cmd = SD_SEND_IF_COND /\ EchoOk(buf'))]
  /\ pc' = AfterCheck(pc, sub = 4 /\ cmd = SD_SEND_IF_COND => EchoOk(buf'))
  /\ IF sub = 4 THEN fn' = "none" /\ sub' = 0 ELSE fn' = fn /\ sub' = sub + 1
  /\ UNCHANGED <<cmd, args, ret, frame, isSDHC, selected, i, sector, count,
                 off, rbuf, wbuf, rv, ready, card, rt>>

CallR3R7 == fn' = "r3r7" /\ sub' = 1

\* an entry point is entered: no callee is active, and the locals of the
\* previous operation are gone
Fresh ==
  /\ fn' = "none" /\ sub' = 0 /\ cmd' = 0 /\ args' = <<0, 0>> /\ frame' = <<>>
  /\ ret' = 0 /\ lastRx' = 0 /\ i' = 0 /\ buf' = <<0, 0, 0, 0>>

\* SD_SendCommand starts counting its exchanges
Enter(h) == [h EXCEPT !.nExch = 0, !.rx7 = 0, !.rx8 = 0]

\* ------------------------------------------------------------------ SD_Init
\* (dprint/print write to the console only; they are not modelled, and the
\* loop counter i they use is reassigned before the driver reads it again)

\* (variant: any non-zero byte sets the flag)
CapacityNonZero(b0) == IF b0 # 0 THEN 1 ELSE 0

\* the capacity flag assigned from buf[0] of the last OCR read
Capacity(b0) == IF BitAnd(b0, OCR_CCS_MASK) # 0 THEN 1 ELSE 0

\* (variant: the capacity flag is cleared when SD_Init starts)
InitEnterReset ==
  /\ pc = "idle"
  /\ pc' = "i_select"
  /\ Fresh
  /\ sector' = <<0, 0>> /\ count' = 0 /\ off' = 0
  /\ hist' = NewOp(hist, "init")
  /\ rv' = <<>> /\ rbuf' = <<>> /\ wbuf' = <<>>
  /\ isSDHC' = 0
  /\ UNCHANGED <<selected, ready, card>>

\* SD_Init(): SPI1_Init()
InitEnter ==
  /\ pc = "idle"
  /\ pc' = "i_select"
  /\ Fresh
  /\ sector' = <<0, 0>> /\ count' = 0 /\ off' = 0
  /\ hist' = NewOp(hist, "init")
  /\ rv' = <<>> /\ rbuf' = <<>> /\ wbuf' = <<>>
  /\ UNCHANGED <<isSDHC, selected, ready, card>>

\* SPI1_Select()
InitSelect ==
  /\ pc = "i_select"
  /\ selected' = TRUE
  /\ hist' = Sel(hist)
  /\ i' = 0
  /\ pc' = "i_sync"
  /\ UNCHANGED <<fn, sub, cmd, args, ret, frame, lastRx, isSDHC, buf, sector, count,
                 off, rbuf, wbuf, rv, ready, card, rt>>

\* for (i = 0; i < 20; i++) SPI1_Transmit(0xff)
InitSync ==
  /\ pc = "i_sync" /\ i < SYNC_BYTES
  /\ \E rx \in RxBytes : lastRx' = rx
  /\ hist' = Exch(hist)
  /\ i' = i + 1
  /\ pc' = IF i + 1 < SYNC_BYTES THEN "i_sync" ELSE "i_cmd0"
  /\ UNCHANGED <<fn, sub, cmd, args, ret, frame, isSDHC, selected, buf, sector,
                 count, off, rbuf, wbuf, rv, ready, card, rt>>

\* a step of SD_Init that calls SD_SendCommand(c, a) and goes on at label next
InitCommand(at, c, a, next) ==
  /\ pc = at /\ fn = "none"
  /\ Call(c, a)
  /\ hist' = Enter(hist)
  /\ pc' = next
  /\ UNCHANGED <<ret, lastRx, isSDHC, selected, i, buf, sector, count, off, rbuf,
                 wbuf, rv, ready, card, rt>>

\* a step of SD_Init that calls SD_GetResponseR3orR7(buf) and goes on at next
InitResponse(at, next) ==
  /\ pc = at /\ fn = "none"
  /\ CallR3R7
  /\ hist' = [hist EXCEPT !.nResp = 0]
  /\ pc' = next
  /\ i' = IF next = "i_poll" THEN 0 ELSE i
  /\ UNCHANGED <<cmd, args, ret, frame, lastRx, isSDHC, selected, buf, sector, count,
                 off, rbuf, wbuf, rv, ready, card, rt>>

InitGoIdle    == InitCommand("i_cmd0", SD_GO_IDLE_STATE, U32(0), "i_cmd8")
InitIfCond    == InitCommand("i_cmd8", SD_SEND_IF_COND,
                             U32(BitOr(SD_IF_COND_VOLT, SD_IF_COND_CHECK)), "i_r7")
InitIfCondR7  == InitResponse("i_r7", "i_ocr1")
InitReadOcr1  == InitCommand("i_ocr1", SD_READ_OCR, U32(0), "i_ocr1r")
InitOcr1R3    == InitResponse("i_ocr1r", "i_poll")
SD_ACMD41_HCS == <<16384, 0>>
\* (variant: ACMD41 is sent without the APP_CMD before it)
InitAppCmdSkipped ==
  InitCommand("i_poll", SD_ACMD_SEND_OP_COND, SD_ACMD41_HCS, "i_delay")

InitAppCmd    == InitCommand("i_poll", SD_APP_CMD, U32(0), "i_acmd")
InitOpCond    == InitCommand("i_acmd", SD_ACMD_SEND_OP_COND, SD_ACMD41_HCS, "i_delay")

\* (variant: the loop ends after the 10th poll without halting)
PollNextNoHalt(st, n) ==
  IF st = 0 THEN "i_ocr2"
  ELSE IF n = INIT_POLLS - 1 THEN "i_ocr2"
  ELSE "i_poll"

\* (variant: SD_Init returns after the 10th poll instead of halting)
PollNextReturn(st, n) ==
  IF st = 0 THEN "i_ocr2"
  ELSE IF n = INIT_POLLS - 1 THEN "i_desel"
  ELSE "i_poll"

\* where the polling loop goes after TIMER_Delay(20), given the status of
\* ACMD41 and the loop counter: break, while(1), or the next iteration
PollNext(st, n) ==
  IF st = 0 THEN "i_ocr2"
  ELSE IF n = INIT_POLLS - 1 THEN "halt"
  ELSE "i_poll"

\* TIMER_Delay(20); if (resp == 0) break; if (i == 9) while(1);  i++
InitPollDelay ==
  /\ pc = "i_delay" /\ fn = "none"
  /\ hist' = Delay(hist, DELAY_ACMD41)
  /\ pc' = PollNext(ret, i)
  /\ i' = IF PollNext(ret, i) = "i_poll" THEN i + 1 ELSE i
  /\ UNCHANGED <<fn, sub, cmd, args, ret, frame, lastRx, isSDHC, selected, buf,
                 sector, count, off, rbuf, wbuf, rv, ready, card, rt>>

InitReadOcr2  == InitCommand("i_ocr2", SD_READ_OCR, U32(0), "i_ocr2r")
InitOcr2R3    == InitResponse("i_ocr2r", "i_cap")

\* if (buf[0] & 0x40) isSDHC = 1; else isSDHC = 0;
InitCapacity ==
  /\ pc = "i_cap" /\ fn = "none"
  /\ isSDHC' = Capacity(buf[1])
  /\ ready' = TRUE
  /\ pc' = "i_desel"
  /\ UNCHANGED <<fn, sub, cmd, args, ret, frame, lastRx, selected, i, buf, sector,
                 count, off, rbuf, wbuf, rv, hist, card, rt>>

\* SPI1_Deselect(); and the return to the caller
InitDeselect ==
  /\ pc = "i_desel"
  /\ selected' = FALSE
  /\ hist' = [Desel(hist) EXCEPT !.returned = TRUE]
  /\ pc' = "idle"
  /\ UNCHANGED <<fn, sub, cmd, args, ret, frame, lastRx, isSDHC, i, buf, sector,
                 count, off, rbuf, wbuf, rv, ready, card, rt>>

SD_Init ==
  \/ InitSelect \/ InitSync \/ InitGoIdle \/ InitIfCond \/ InitIfCondR7
  \/ InitReadOcr1 \/ InitOcr1R3 \/ InitAppCmd \/ InitOpCond \/ InitPollDelay
  \/ InitReadOcr2 \/ InitOcr2R3 \/ InitCapacity \/ InitDeselect

\* ---------------------------------------------------------- SD_ReadSectors
\* the caller's buffer of n blocks before a read fills it
BlankBuf(n) == [j \in 1..n |-> Blank]

\* index in the caller's buffer of the block at byte offset o
BlockAt(o) == (o \div SECTOR_SIZE) + 1

\* (variant: the flag is not consulted)
ReadAddressBytes(s, hc) == Mul512(s)

\* the protocol address SD_ReadSectors sends for sector s
ReadAddress(s, hc) == IF hc = 0 THEN Mul512(s) ELSE s

\* (variant: any non-zero byte ends the wait)
IsDataTokenNonZero(rx) == rx # 0

\* the test that ends the wait for the data token
IsDataToken(rx) == rx = SD_TOKEN_SBR_MBR_SBW

\* (variant: the first byte received ends the wait)
NotBusyAlways(rx) == TRUE

\* the test that ends the wait for the card to stop being busy
NotBusy(rx) == rx # 0

\* (variant: the block loop is skipped after a non-zero status)
ReadMoreIfOk(st, n) == st = 0 /\ n # 0

\* while (count): whether a further block is read, given the status st of
\* READ_MULTIPLE_BLOCK and the blocks n left
ReadMore(st, n) == n # 0

\* SD_ReadSectors(buf, S, c): if (!isSDHC) sector *= 512
ReadEnter(S, c) ==
  /\ pc = "idle"
  /\ sector' = ReadAddress(S, isSDHC)
  /\ count' = c /\ off' = 0
  /\ rbuf' = BlankBuf(c) /\ wbuf' = <<>> /\ rv' = <<>>
  /\ hist' = [NewOp(hist, "read") EXCEPT !.S0 = S]
  /\ pc' = "r_select"
  /\ Fresh
  /\ UNCHANGED <<isSDHC, selected, ready, card>>

\* SPI1_Select()
ReadSelect ==
  /\ pc = "r_select"
  /\ selected' = TRUE
  /\ hist' = Sel(hist)
  /\ pc' = "r_cmd"
  /\ UNCHANGED <<fn, sub, cmd, args, ret, frame, lastRx, isSDHC, i, buf, sector,
                 count, off, rbuf, wbuf, rv, ready, card, rt>>

\* resp = SD_SendCommand(SD_READ_MULTIPLE_BLOCK, sector)
ReadCommand ==
  /\ pc = "r_cmd" /\ fn = "none"
  /\ Call(SD_READ_MULTIPLE_BLOCK, sector)
  /\ hist' = Enter(hist)
  /\ pc' = "r_loop"
  /\ UNCHANGED <<ret, lastRx, isSDHC, selected, i, buf, sector, count, off, rbuf,
                 wbuf, rv, ready, card, rt>>

\* while (count) { while (SPI1_Transmit(0xff) != 0xfe); ...
ReadWaitToken ==
  /\ pc = "r_loop" /\ fn = "none" /\ ReadMore(ret, count)
  /\ \E rx \in RxBytes :
       /\ (hist.nOther >= MaxWait /\ card.mode # "noToken") => rx = SD_TOKEN_SBR_MBR_SBW
       /\ card.mode = "noToken" => rx # SD_TOKEN_SBR_MBR_SBW
       /\ lastRx' = rx
       /\ hist' = [Exch(hist) EXCEPT
                     !.nWait  = Tick(@, MaxWait),
                     !.nOther = IF rx # SD_TOKEN_SBR_MBR_SBW THEN Tick(@, MaxWait) ELSE @,
                     !.nPay = 0, !.nCrc = 0]
       /\ pc' = IF IsDataToken(rx) THEN "r_data" ELSE "r_loop"
  /\ UNCHANGED <<fn, sub, cmd, args, ret, frame, isSDHC, selected, i, buf, sector,
                 count, off, rbuf, wbuf, rv, ready, card, rt>>

\* SPI1_ReadBuffer(buf, 512)
ReadBlock ==
  /\ pc = "r_data"
  /\ \E blk \in CardBlocks :
       rbuf' = [rbuf EXCEPT ![BlockAt(off)] = blk]
  /\ card' = CardOnRead
  /\ hist' = Log(Xfer(hist, SECTOR_SIZE), "rd", off, <<0, 0>>)
  /\ pc' = "r_crc1"
  /\ UNCHANGED <<fn, sub, cmd, args, ret, frame, lastRx, isSDHC, selected, i, buf,
                 sector, count, off, wbuf, rv, ready, rt>>

\* SPI1_Transmit(0xff); SPI1_Transmit(0xff); count--; buf += 512;
ReadCrc ==
  /\ pc \in {"r_crc1", "r_crc2"}
  /\ \E rx \in RxBytes : lastRx' = rx
  /\ hist' = [Exch(hist) EXCEPT
                !.nCrc = @ + 1,
                !.nWait  = IF pc = "r_crc2" THEN 0 ELSE @,
                !.nOther = IF pc = "r_crc2" THEN 0 ELSE @]
  /\ IF pc = "r_crc1"
       THEN pc' = "r_crc2" /\ UNCHANGED <<count, off>>
       ELSE /\ pc' = "r_loop"
            /\ count' = count - 1
            /\ off' = off + SECTOR_SIZE
  /\ UNCHANGED <<fn, sub, cmd, args, ret, frame, isSDHC, selected, i, buf, sector,
                 rbuf, wbuf, rv, ready, card, rt>>

\* ... } resp = SD_SendCommand(SD_STOP_TRANSMISSION, 0)
ReadStop ==
  /\ pc = "r_loop" /\ fn = "none" /\ ~ReadMore(ret, count)
  /\ Call(SD_STOP_TRANSMISSION, U32(0))
  /\ hist' = [Enter(hist) EXCEPT !.nWait = 0, !.nOther = 0]
  /\ pc' = "r_busy"
  /\ UNCHANGED <<ret, lastRx, isSDHC, selected, i, buf, sector, count, off, rbuf,
                 wbuf, rv, ready, card, rt>>

\* while (!SPI1_Transmit(0xff));
ReadBusy ==
  /\ pc = "r_busy" /\ fn = "none"
  /\ \E rx \in RxBytes :
       /\ (hist.nOther >= MaxWait /\ card.mode # "busy") => rx # 0
       /\ card.mode = "busy" => rx = 0
       /\ lastRx' = rx
       /\ hist' = [Exch(hist) EXCEPT
                     !.nWait  = Tick(@, MaxWait),
                     !.nOther = IF rx = 0 THEN Tick(@, MaxWait) ELSE @]
       /\ pc' = IF NotBusy(rx) THEN "r_desel" ELSE "r_busy"
  /\ UNCHANGED <<fn, sub, cmd, args, ret, frame, isSDHC, selected, i, buf, sector,
                 count, off, rbuf, wbuf, rv, ready, card, rt>>

\* (variant: the status of the last command is returned)
TransferResultStatus(st) == st

\* return 0: the value a transfer returns, whatever the status st of its last command
TransferResult(st) == 0

\* (variant: return 0 without SPI1_Deselect())
ReadReturnSelected ==
  /\ pc = "r_desel"
  /\ rv' = <<TransferResult(ret)>>
  /\ pc' = "idle"
  /\ UNCHANGED <<fn, sub, cmd, args, ret, frame, lastRx, isSDHC, selected, i, buf,
                 sector, count, off, rbuf, wbuf, hist, ready, card, rt>>

\* SPI1_Deselect(); return 0;
ReadDeselect ==
  /\ pc = "r_desel"
  /\ selected' = FALSE
  /\ hist' = Desel(hist)
  /\ rv' = <<TransferResult(ret)>>
  /\ pc' = "idle"
  /\ UNCHANGED <<fn, sub, cmd, args, ret, frame, lastRx, isSDHC, i, buf, sector,
                 count, off, rbuf, wbuf, ready, card, rt>>

SD_ReadSectors ==
  \/ ReadSelect \/ ReadCommand \/ ReadWaitToken \/ ReadBlock \/ ReadCrc
  \/ ReadStop \/ ReadBusy \/ ReadDeselect

\* --------------------------------------------------------- SD_WriteSectors
\* (variant: the flag is consulted, as in SD_ReadSectors)
WriteAddressByFlag(s, hc) == IF hc = 0 THEN Mul512(s) ELSE s

\* the protocol address SD_WriteSectors sends for sector s
WriteAddress(s, hc) == Mul512(s)

\* SD_WriteSectors(buf, S, c): sector *= 512
WriteEnter(S, c, b) ==
  /\ pc = "idle"
  /\ sector' = WriteAddress(S, isSDHC)
  /\ count' = c /\ off' = 0
  /\ wbuf' = b /\ rbuf' = <<>> /\ rv' = <<>>
  /\ hist' = [NewOp(hist, "write") EXCEPT !.S0 = S]
  /\ pc' = "w_select"
  /\ Fresh
  /\ UNCHANGED <<isSDHC, selected, ready, card>>

\* SPI1_Select()
WriteSelect ==
  /\ pc = "w_select"
  /\ selected' = TRUE
  /\ hist' = Sel(hist)
  /\ pc' = "w_cmd"
  /\ UNCHANGED <<fn, sub, cmd, args, ret, frame, lastRx, isSDHC, i, buf, sector,
                 count, off, rbuf, wbuf, rv, ready, card, rt>>

\* do { status = SD_SendCommand(SD_WRITE_MULTIPLE_BLOCK, sector);
WriteCommand ==
  /\ pc = "w_cmd" /\ fn = "none"
  /\ Call(SD_WRITE_MULTIPLE_BLOCK, sector)
  /\ hist' = Enter(hist)
  /\ pc' = "w_delay"
  /\ UNCHANGED <<ret, lastRx, isSDHC, selected, i, buf, sector, count, off, rbuf,
                 wbuf, rv, ready, card, rt>>

\* (variant: the command is sent once)
WriteRetryNever(st) == FALSE

\* whether the do-while loop sends the command again, given its status
WriteRetry(st) == st # 0

\* TIMER_Delay(5); } while (status != 0);
WriteDelay ==
  /\ pc = "w_delay" /\ fn = "none"
  /\ hist' = Delay(hist, DELAY_WRITE)
  /\ pc' = IF WriteRetry(ret) THEN "w_cmd" ELSE "w_fill"
  /\ UNCHANGED <<fn, sub, cmd, args, ret, frame, lastRx, isSDHC, selected, i, buf,
                 sector, count, off, rbuf, wbuf, rv, ready, card, rt>>

\* (variant: no block is sent)
WriteMoreNever(n) == FALSE

\* while (count): whether a further block is sent, given the blocks n left
WriteMore(n) == n # 0

\* a data token or payload goes out: was the write command accepted?
DataPhase(h) == [h EXCEPT !.early = @ \/ ret # 0 \/ cmd # SD_WRITE_MULTIPLE_BLOCK]

\* SPI1_Transmit(0xff) after the loop, SPI1_Transmit(0xff) after the stop token
WriteFiller ==
  /\ pc \in {"w_fill", "w_stopfill"}
  /\ \E rx \in RxBytes : lastRx' = rx
  /\ hist' = [Log(Exch(hist), "tx", FILLER, <<0, 0>>) EXCEPT !.nWait = 0, !.nOther = 0]
  /\ pc' = IF pc = "w_fill" THEN "w_loop" ELSE "w_busy"
  /\ UNCHANGED <<fn, sub, cmd, args, ret, frame, isSDHC, selected, i, buf, sector,
                 count, off, rbuf, wbuf, rv, ready, card, rt>>

\* while (count) { SPI1_Transmit(0xfc); ...
WriteToken ==
  /\ pc = "w_loop" /\ WriteMore(count)
  /\ \E rx \in RxBytes : lastRx' = rx
  /\ hist' = [Log(DataPhase(Exch(hist)), "tx", TOKEN_MBW, <<0, 0>>)
                EXCEPT !.nPay = 0, !.nCrc = 0]
  /\ pc' = "w_data"
  /\ UNCHANGED <<fn, sub, cmd, args, ret, frame, isSDHC, selected, i, buf, sector,
                 count, off, rbuf, wbuf, rv, ready, card, rt>>

\* SPI1_SendBuffer(buf, 512)
WriteBlock ==
  /\ pc = "w_data"
  /\ card' = CardOnWrite(wbuf[BlockAt(off)])
  /\ hist' = Log(DataPhase(Xfer(hist, SECTOR_SIZE)), "wr", off, <<0, 0>>)
  /\ pc' = "w_crc1"
  /\ UNCHANGED <<fn, sub, cmd, args, ret, frame, lastRx, isSDHC, selected, i, buf,
                 sector, count, off, rbuf, wbuf, rv, ready, rt>>

\* SPI1_Transmit(0xff); SPI1_Transmit(0xff); count--; buf += 512;
WriteCrc ==
  /\ pc \in {"w_crc1", "w_crc2"}
  /\ \E rx \in RxBytes : lastRx' = rx
  /\ hist' = [Log(Exch(hist), "tx", FILLER, <<0, 0>>) EXCEPT !.nCrc = @ + 1]
  /\ IF pc = "w_crc1"
       THEN pc' = "w_crc2" /\ UNCHANGED <<count, off>>
       ELSE /\ pc' = "w_loop"
            /\ count' = count - 1
            /\ off' = off + SECTOR_SIZE
  /\ UNCHANGED <<fn, sub, cmd, args, ret, frame, isSDHC, selected, i, buf, sector,
                 rbuf, wbuf, rv, ready, card, rt>>

\* ... } SPI1_Transmit(0xfd)
WriteStopToken ==
  /\ pc = "w_loop" /\ ~WriteMore(count)
  /\ \E rx \in RxBytes : lastRx' = rx
  /\ hist' = Log(Exch(hist), "tx", TOKEN_STOP_TRAN, <<0, 0>>)
  /\ pc' = "w_stopfill"
  /\ UNCHANGED <<fn, sub, cmd, args, ret, frame, isSDHC, selected, i, buf, sector,
                 count, off, rbuf, wbuf, rv, ready, card, rt>>

\* while (!SPI1_Transmit(0xff));
WriteBusy ==
  /\ pc = "w_busy"
  /\ \E rx \in RxBytes :
       /\ (hist.nOther >= MaxWait /\ card.mode # "busy") => rx # 0
       /\ card.mode = "busy" => rx = 0
       /\ lastRx' = rx
       /\ hist' = [Exch(hist) EXCEPT
                     !.nWait  = Tick(@, MaxWait),
                     !.nOther = IF rx = 0 THEN Tick(@, MaxWait) ELSE @]
       /\ pc' = IF NotBusy(rx) THEN "w_desel" ELSE "w_busy"
  /\ UNCHANGED <<fn, sub, cmd, args, ret, frame, isSDHC, selected, i, buf, sector,
                 count, off, rbuf, wbuf, rv, ready, card, rt>>

\* (variant: the write clears the capacity flag on its way out)
WriteDeselectClear ==
  /\ pc = "w_desel"
  /\ selected' = FALSE
  /\ isSDHC' = 0
  /\ hist' = Desel(hist)
  /\ rv' = <<TransferResult(ret)>>
  /\ pc' = "idle"
  /\ UNCHANGED <<fn, sub, cmd, args, ret, frame, lastRx, i, buf, sector,
                 count, off, rbuf, wbuf, ready, card, rt>>

\* SPI1_Deselect(); return 0;
WriteDeselect ==
  /\ pc = "w_desel"
  /\ selected' = FALSE
  /\ hist' = Desel(hist)
  /\ rv' = <<TransferResult(ret)>>
  /\ pc' = "idle"
  /\ UNCHANGED <<fn, sub, cmd, args, ret, frame, lastRx, isSDHC, i, buf, sector,
                 count, off, rbuf, wbuf, ready, card, rt>>

SD_WriteSectors ==
  \/ WriteSelect \/ WriteCommand \/ WriteDelay \/ WriteFiller \/ WriteToken
  \/ WriteBlock \/ WriteCrc \/ WriteStopToken \/ WriteBusy \/ WriteDeselect

\* ------------------------------------------------------- the specifications
\* buffers of n blocks a caller may pass to a write
Buffers(n) == [1..n -> Payloads]

CardInit(m, h) == [mode |-> m, hc |-> h, addr |-> <<0, 0>>, mem |-> <<>>]

Start ==
  /\ fn = "none" /\ sub = 0
  /\ cmd = 0 /\ args = <<0, 0>> /\ ret = 0 /\ frame = <<>> /\ lastRx = 0
  /\ isSDHC = 0
  /\ i = 0 /\ buf = <<0, 0, 0, 0>>
  /\ sector = <<0, 0>> /\ count = 0 /\ off = 0
  /\ rbuf = <<>> /\ wbuf = <<>> /\ rv = <<>>
  /\ hist = HistInit
  /\ ready = FALSE

Steps == SendCommandByte \/ SendCommandStatus \/ GetResponseByte
         \/ SD_Init \/ SD_ReadSectors \/ SD_WriteSectors

\* Any caller, any card: the three entry points are called in any order with
\* any arguments, and the card answers any byte.
Init ==
  /\ Start /\ pc = "idle" /\ selected = FALSE
  /\ card = CardInit("any", FALSE)
  /\ rt = [phase |-> "none"]

CallAny ==
  \/ InitEnter
  \/ \E S \in Sectors, c \in 0..MaxCount : ReadEnter(S, c)
  \/ \E S \in Sectors, c \in 0..MaxCount : \E b \in Buffers(c) : WriteEnter(S, c, b)

Next == (CallAny /\ UNCHANGED rt) \/ Steps

Spec == Init /\ [][Next]_vars

\* The round-trip caller and a storing card of either capacity class: SD_Init,
\* then SD_WriteSectors(b, S, c), then SD_ReadSectors(out, S, c). The caller
\* keeps what it passed, and wa, the argument of the write command sent.
RtIdle == [phase |-> "start", S |-> <<0, 0>>, c |-> 0, b |-> <<>>, wa |-> <<0, 0>>]

InitRT ==
  /\ Start /\ pc = "idle" /\ selected = FALSE
  /\ \E h \in BOOLEAN : card = CardInit("store", h)
  /\ rt = RtIdle

RtInit ==
  /\ rt.phase = "start"
  /\ InitEnter
  /\ rt' = [rt EXCEPT !.phase = "inited"]

RtWrite ==
  /\ rt.phase = "inited"
  /\ \E S \in Sectors, c \in 1..MaxCount : \E b \in Buffers(c) :
       /\ WriteEnter(S, c, b)
       /\ rt' = [phase |-> "written", S |-> S, c |-> c, b |-> b, wa |-> <<0, 0>>]

RtRead ==
  /\ rt.phase = "written"
  /\ ReadEnter(rt.S, rt.c)
  /\ rt' = [rt EXCEPT !.phase = "read", !.wa = args]

NextRT == RtInit \/ RtWrite \/ RtRead \/ Steps

SpecRT == InitRT /\ [][NextRT]_vars

\* SD_Init alone, called again and again, against a card that answers any
\* byte. Execution is sequential: a step of the driver that can be taken is
\* taken.
InitSteps == SendCommandByte \/ SendCommandStatus \/ GetResponseByte \/ SD_Init

NextInit == (InitEnter /\ UNCHANGED rt) \/ InitSteps

SpecInit == Init /\ [][NextInit]_vars /\ WF_vars(InitSteps)

\* The two transfers alone, called again and again for one sector, against a
\* storing card, which sends every byte the driver waits for after at most
\* MaxWait others (MaxRetry refusals), and against the three cards that never
\* send one of them. Execution is sequential: a step of the driver that can be
\* taken is taken.
BlockSector == <<0, 1>>

InitBlock ==
  /\ Start /\ pc = "idle" /\ selected = FALSE
  /\ \E m \in {"store"} \cup Never : card = CardInit(m, FALSE)
  /\ rt = [phase |-> "none"]

CallBlock ==
  \E c \in 0..MaxCount :
    \/ ReadEnter(BlockSector, c)
    \/ WriteEnter(BlockSector, c, [j \in 1..c |-> "p1"])

BlockSteps == SendCommandByte \/ SendCommandStatus \/ SD_ReadSectors \/ SD_WriteSectors

NextBlock == (CallBlock /\ UNCHANGED rt) \/ BlockSteps

SpecBlock == InitBlock /\ [][NextBlock]_vars /\ WF_vars(BlockSteps)

\* SD_SendCommand on its own: called with the card selected, for every command
\* index and for sample arguments, against a card that answers any byte.
CmdIndices == 0..63
ArgSamples == {<<0, 0>>, <<0, 426>>, <<16384, 0>>, <<4660, 22136>>, <<65535, 65535>>}

InitCmd ==
  /\ Start /\ pc = "unit" /\ selected = TRUE
  /\ card = CardInit("any", FALSE)
  /\ rt = [phase |-> "none"]

UnitCall ==
  /\ pc = "unit" /\ fn = "none"
  /\ \E c \in CmdIndices, a \in ArgSamples : Call(c, a)
  /\ hist' = NewOp(hist, "unit")
  /\ UNCHANGED <<pc, ret, lastRx, isSDHC, selected, i, buf, sector, count, off, rbuf,
                 wbuf, rv, ready, card, rt>>

NextCmd == UnitCall \/ SendCommandByte \/ SendCommandStatus

SpecCmd == InitCmd /\ [][NextCmd]_vars

\* ---------------------------------------------------------------------- C1
\* C1: (round trip) once SD_ReadSectors(out, S, count) has returned after
\* SD_WriteSectors(buf, S, count) against a storing card, out holds the blocks
\* of buf, for either capacity class, every S and every count >= 1.
C1_RoundTrip ==
  (rt.phase = "read" /\ pc = "idle") => rbuf = rt.b

\* the round trip does hold on a standard-capacity card, and for sector 0
C1_RoundTripStandard ==
  (rt.phase = "read" /\ pc = "idle" /\ (~card.hc \/ rt.S = <<0, 0>>)) => rbuf = rt.b

\* ---------------------------------------------------------------------- C2
\* C2: (initialization outcome) SD_Init leaves the polling loop for the final
\* OCR read exactly when an ACMD41 status was 0, which is then the status of
\* the latest of at most 10 polls, and it then returns with the capacity flag
\* assigned; it is halted exactly when 10 polls all had a non-zero status, and
\* from the halted state it takes no further step.
InitLeft == pc \in {"i_ocr2", "i_ocr2r", "i_cap", "i_desel"}
InitReturned == pc = "idle" /\ hist.op = "init"

C2_Outcome ==
  /\ InitLeft \/ InitReturned =>
        hist.firstZero = hist.nPoll /\ hist.nPoll \in 1..INIT_POLLS
  /\ InitReturned => ready /\ ~selected
  /\ pc = "halt" => hist.firstZero = 0 /\ hist.nPoll = INIT_POLLS
  /\ hist.op = "init" /\ hist.firstZero # 0 /\ pc # "i_delay" =>
        InitLeft \/ InitReturned
  /\ hist.op = "init" /\ hist.firstZero = 0 /\ hist.nPoll = INIT_POLLS /\
        pc # "i_delay" => pc = "halt"

C2_InitOutcome ==
  /\ []C2_Outcome
  /\ [][pc # "halt"]_vars
  /\ (hist.op = "init" /\ hist.firstZero # 0) ~> InitReturned
  /\ (hist.op = "init" /\ pc # "idle") ~> (InitReturned \/ pc = "halt")

\* SD_Init has returned after a zero status on the 10th poll
C2_Witness == InitReturned /\ hist.firstZero = INIT_POLLS

\* SD_Init is halted
C2_WitnessHalt == pc = "halt"

\* ---------------------------------------------------------------------- C3
\* C3: (command frame) the first six bytes SD_SendCommand(cmd, arg) transmits
\* are 0x40|cmd, then arg most significant byte first, then the checksum:
\* 0x95 for cmd 0, 0x87 for cmd 8, 0xFF for every other cmd.
FrameByteOk(k) ==
  CASE k = 1 -> frame[1] = 64 + cmd
    [] k = 2 -> frame[2] \in 0..255
    [] k = 3 -> frame[3] \in 0..255 /\ frame[2] * 256 + frame[3] = args[1]
    [] k = 4 -> frame[4] \in 0..255
    [] k = 5 -> frame[5] \in 0..255 /\ frame[4] * 256 + frame[5] = args[2]
    [] k = 6 -> frame[6] = (IF cmd = 0 THEN 149 ELSE IF cmd = 8 THEN 135 ELSE 255)
    [] OTHER -> TRUE

C3_CommandFrame ==
  /\ fn = "cmd" => Len(frame) = sub - 1
  /\ \A k \in 1..Len(frame) : FrameByteOk(k)

\* a whole frame of a command with neither special checksum and an argument
\* of four different bytes has been sent
C3_Witness ==
  /\ Len(frame) >= 6 /\ cmd \notin {0, 8}
  /\ Cardinality({frame[k] : k \in 2..5}) = 4

\* --------------------------------------------------------------------- C10
\* C10: (status capture) a call of SD_SendCommand makes exactly 8 exchanges,
\* the 6 frame bytes and then 2 filler bytes 0xFF, and returns the byte
\* received in the 8th, whatever was received before; it ends after the 8th
\* exchange whatever the card answered.
CmdReturned == fn = "none" /\ Len(frame) = 8

C10_StatusCapture ==
  /\ fn = "cmd" => sub \in 1..8 /\ hist.nExch = sub - 1 /\ Len(frame) = sub - 1
  /\ Len(frame) <= 8
  /\ Len(frame) >= 7 => frame[7] = 255
  /\ Len(frame) = 8 => fn # "cmd" /\ frame[8] = 255
  /\ CmdReturned => hist.nExch = 8 /\ ret = hist.rx8

\* a command has returned a non-zero status although its 7th exchange
\* received a different non-zero byte
C10_Witness ==
  /\ CmdReturned /\ hist.nExch = 8
  /\ ret # 0 /\ hist.rx7 # 0 /\ hist.rx7 # ret

\* ---------------------------------------------------------------------- C4
\* the value of a uint32 below 2^31, and of a uint32 divided by 512
Val(x)    == x[1] * U16 + x[2]
Div512(x) == x[1] * 128 + (x[2] \div 512)

ReadCommandSent == hist.op = "read" /\ cmd = SD_READ_MULTIPLE_BLOCK

\* C4 as stated: the argument of READ_MULTIPLE_BLOCK is S*512 under the
\* standard-capacity flag and S under the high-capacity flag, for every S.
C4_ReadAddressExact ==
  ReadCommandSent =>
    IF isSDHC = 0
      THEN args[2] % 512 = 0 /\ Div512(args) = Val(hist.S0)
      ELSE args = hist.S0

\* C4, amended: the argument of READ_MULTIPLE_BLOCK is (S*512) mod 2^32 under
\* the standard-capacity flag, which is S*512 for S < 2^23, and S under the
\* high-capacity flag.
C4_ReadAddress ==
  ReadCommandSent =>
    IF isSDHC = 0
      THEN /\ args[2] % 512 = 0 /\ Div512(args) = Val(hist.S0) % 8388608
           /\ Val(hist.S0) < 8388608 => Div512(args) = Val(hist.S0)
      ELSE args = hist.S0

\* after an SD_Init that cleared the flag, READ_MULTIPLE_BLOCK has been sent
\* for sector 2^23 + 1 with the wrapped byte address 512
C4_Witness ==
  /\ ReadCommandSent /\ Len(frame) = 8 /\ ready /\ isSDHC = 0
  /\ hist.S0 = <<128, 1>> /\ args = <<0, 512>>

\* after an SD_Init that set the flag, it has been sent for sector 1 with the
\* block address 1
C4_WitnessHighCapacity ==
  /\ ReadCommandSent /\ Len(frame) = 8 /\ hist.S0 = <<0, 1>>
  /\ isSDHC = 1 /\ args = <<0, 1>>

\* ---------------------------------------------------------------------- C5
\* C5: (capacity-flag derivation) when SD_Init has returned, isSDHC is 1 if
\* bit 6 of the first byte read after the final READ_OCR is set and 0 if not,
\* whatever the pre-polling OCR read and the status bytes were.
Bit6(b) == (b \div 64) % 2 = 1

C5_CapacityFlag ==
  /\ InitReturned => isSDHC \in {0, 1} /\ (isSDHC = 1 <=> Bit6(hist.respB0))
  /\ pc = "i_desel" => (isSDHC = 1 <=> Bit6(hist.respB0))

\* SD_Init has returned with the flag set although the pre-polling OCR read
\* had bit 6 clear in a non-zero first byte
C5_Witness ==
  /\ InitReturned /\ isSDHC = 1
  /\ hist.ocr1B0 # 0 /\ ~Bit6(hist.ocr1B0)

\* ... and with the flag clear although the final first byte is not zero and
\* the pre-polling one had bit 6 set
C5_WitnessClear ==
  /\ InitReturned /\ isSDHC = 0 /\ hist.respB0 # 0 /\ Bit6(hist.ocr1B0)

\* ---------------------------------------------------------------------- C6
\* C6: for any order of calls, no READ_MULTIPLE_BLOCK or WRITE_MULTIPLE_BLOCK
\* command is transmitted before some SD_Init run has assigned the capacity
\* flag.
C6_NoTransferBeforeInit == ~hist.preReady

\* What the driver does guarantee: a block-transfer command is transmitted
\* before any SD_Init run has assigned the capacity flag only if the caller
\* invoked a transfer before any SD_Init call had returned. SD_Init returns
\* only with the flag assigned and transmits no block-transfer command
\* itself; until then the flag has its initial value 0.
C6_TransferAfterInit ==
  /\ hist.preReady => hist.earlyCall
  /\ hist.returned => ready
  /\ hist.op = "init" => cmd \notin {SD_READ_MULTIPLE_BLOCK, SD_WRITE_MULTIPLE_BLOCK}
  /\ ~ready => isSDHC = 0

\* a transfer called after SD_Init returned has sent its command, and no
\* transfer command was ever sent before the flag was assigned
C6_Witness ==
  /\ hist.op \in {"read", "write"} /\ Len(frame) = 8 /\ hist.returned
  /\ cmd \in {SD_READ_MULTIPLE_BLOCK, SD_WRITE_MULTIPLE_BLOCK}
  /\ ~hist.preReady /\ ~hist.earlyCall

\* ---------------------------------------------------------------------- C7
\* C7: (link acquisition) every byte exchange and block transfer happens
\* while the card is selected; SPI1_Select is never called while it is
\* selected; an operation that has returned has called SPI1_Deselect exactly
\* once, as its last link action, so that the link is deselected between
\* operations.
OpReturned == pc = "idle" /\ hist.op \in {"init", "read", "write"}

C7_LinkDiscipline ==
  /\ ~hist.unsel
  /\ ~hist.resel
  /\ hist.nSel <= 1
  /\ OpReturned => hist.nSel = 1 /\ hist.nDesel = 1 /\ hist.last = "deselect"
  /\ pc # "idle" => hist.nDesel = 0
  /\ pc = "idle" => ~selected
  /\ hist.last \in {"xchg", "xfer"} => selected

\* each of the three operations has returned
C7_Witness == OpReturned /\ hist.op = "read" /\ hist.returned /\ hist.nDesel = 1
C7_WitnessInit  == OpReturned /\ hist.op = "init"
C7_WitnessWrite == OpReturned /\ hist.op = "write"

\* ---------------------------------------------------------------------- C8
\* C8: (write-command retry) when the card gives a non-zero status to the
\* first k-1 WRITE_MULTIPLE_BLOCK commands and zero to the k-th,
\* SD_WriteSectors sends exactly k of them, all with the same argument, with
\* TIMER_Delay(5) after each, and sends no data token or payload before the
\* zero status.
WriteDataPhase ==
  hist.op = "write" /\
  pc \in {"w_fill", "w_loop", "w_data", "w_crc1", "w_crc2", "w_stopfill", "w_busy",
          "w_desel", "idle"}

C8_WriteRetry ==
  hist.op = "write" =>
    /\ Len(hist.wrArgs) = hist.nWrCmd
    /\ \A k \in 1..Len(hist.wrArgs) : hist.wrArgs[k] = sector
    /\ ~hist.early
    /\ WriteDataPhase => hist.nWrCmd = hist.nBad + 1 /\ ret = 0
    /\ ~WriteDataPhase => hist.nWrCmd \in {hist.nBad, hist.nBad + 1}
    /\ pc = "w_cmd" /\ fn = "none" => hist.nDelay = hist.nWrCmd
    /\ WriteDataPhase => hist.nDelay = hist.nWrCmd
    /\ hist.nDelay > 0 => hist.ms = 5

\* the data token of a block goes out after two refused commands and a third
\* that was accepted
C8_Witness ==
  /\ hist.op = "write" /\ pc = "w_data"
  /\ hist.nBad = 2 /\ hist.nWrCmd = 3

\* ---------------------------------------------------------------------- C9
\* C9: (read token wait) for each block, when the card sends k bytes other
\* than 0xFE and then 0xFE, SD_ReadSectors makes exactly k + 1 exchanges,
\* then reads 512 payload bytes into the buffer, then makes exactly 2 further
\* exchanges; what these receive changes neither the buffer nor the course
\* of the call.
C9_Wait ==
  /\ pc = "r_data" => lastRx = 254 /\ hist.nWait = hist.nOther + 1 /\ hist.nPay = 0
  /\ pc = "r_crc1" => hist.nWait = hist.nOther + 1 /\ hist.nPay = 512 /\ hist.nCrc = 0
  /\ pc = "r_crc2" => hist.nWait = hist.nOther + 1 /\ hist.nPay = 512 /\ hist.nCrc = 1
  /\ pc = "r_loop" /\ fn = "none" /\ hist.nWait # 0 =>
        lastRx # 254 /\ hist.nWait = hist.nOther
  /\ pc = "r_loop" /\ fn = "none" /\ hist.nWait = 0 /\ off # 0 =>
        hist.nPay = 512 /\ hist.nCrc = 2

C9_Discard ==
  pc \in {"r_crc1", "r_crc2"} =>
    /\ rbuf' = rbuf
    /\ pc' = IF pc = "r_crc1" THEN "r_crc2" ELSE "r_loop"

C9_ReadTokenWait == []C9_Wait /\ [][C9_Discard]_vars

\* a block is about to be read after five bytes that were not the token
C9_Witness == pc = "r_data" /\ hist.nOther = 5 /\ hist.nWait = 6

\* --------------------------------------------------------------------- C11
\* C11: (fixed return code) every call of SD_ReadSectors or SD_WriteSectors
\* that returns, returns 0, whatever statuses the card gave to
\* READ_MULTIPLE_BLOCK, STOP_TRANSMISSION and WRITE_MULTIPLE_BLOCK; a call
\* that has not returned has produced no value.
TransferReturned == pc = "idle" /\ hist.op \in {"read", "write"}

C11_FixedReturn ==
  /\ TransferReturned => rv = <<0>>
  /\ hist.op \in {"read", "write"} /\ pc # "idle" => rv = <<>>

\* a read has returned after non-zero statuses to both of its commands
C11_Witness ==
  /\ TransferReturned /\ hist.op = "read" /\ rv = <<0>>
  /\ hist.rdBad /\ ret # 0

\* a read has returned after a zero status to READ_MULTIPLE_BLOCK, and a
\* write after a refused WRITE_MULTIPLE_BLOCK
C11_WitnessZero  == TransferReturned /\ hist.op = "read" /\ ~hist.rdBad /\ rv = <<0>>
C11_WitnessWrite == TransferReturned /\ hist.op = "write" /\ hist.nBad > 0 /\ rv = <<0>>

\* --------------------------------------------------------------------- C12
\* the order of an SD_Init run with n polls, with or without the final OCR read
InitHead ==
  << <<"cmd", 0, <<0, 0>>>>, <<"cmd", 8, <<0, 426>>>>, <<"resp", 4, <<0, 0>>>>,
     <<"cmd", 58, <<0, 0>>>>, <<"resp", 4, <<0, 0>>>> >>
InitPoll ==
  << <<"cmd", 55, <<0, 0>>>>, <<"cmd", 41, <<16384, 0>>>>, <<"delay", 20, <<0, 0>>>> >>
InitTail ==
  << <<"cmd", 58, <<0, 0>>>>, <<"resp", 4, <<0, 0>>>> >>

RECURSIVE Polls(_)
Polls(n) == IF n = 0 THEN <<>> ELSE InitPoll \o Polls(n - 1)

InitOrder(n, final) == InitHead \o Polls(n) \o (IF final THEN InitTail ELSE <<>>)

IsPrefix(a, b) == Len(a) <= Len(b) /\ a = SubSeq(b, 1, Len(a))

\* C12: (initialization command order) what an SD_Init run has sent is at
\* every moment a prefix of: GO_IDLE_STATE(0), SEND_IF_COND(0x1AA), a 4-byte
\* read, READ_OCR(0), a 4-byte read, then n polls APP_CMD(0), ACMD41(bit 30),
\* 20 ms delay with 1 <= n <= 10, then READ_OCR(0) and a 4-byte read. The
\* polls end with the first whose ACMD41 status is 0; without such a status
\* there are 10 polls and no final READ_OCR. A run that has returned has sent
\* the whole sequence.
C12_InitOrder ==
  hist.op = "init" =>
    /\ IF hist.firstZero = 0
         THEN IsPrefix(hist.log, InitOrder(10, FALSE))
         ELSE IsPrefix(hist.log, InitOrder(hist.firstZero, TRUE))
    /\ InitReturned => hist.firstZero \in 1..10 /\ hist.log = InitOrder(hist.firstZero, TRUE)
    /\ pc = "halt" => hist.log = InitOrder(10, FALSE)

\* a run whose third ACMD41 status was the first 0 has returned
C12_Witness ==
  InitReturned /\ hist.firstZero = 3 /\ Len(hist.log) = 5 + 3 * 3 + 2

\* a run is halted after 10 polls
C12_WitnessHalt == pc = "halt" /\ Len(hist.log) = 5 + 3 * 10

\* --------------------------------------------------------------------- C13
\* C13: (only poll exhaustion is fatal) SD_Init is halted exactly when it has
\* received 10 ACMD41 statuses, all non-zero, and made the delay after the
\* 10th; a run that has returned has sent the sequence that the index of the
\* first zero ACMD41 status determines, whatever the other statuses and the
\* interface-condition echo were; no step of a command other than ACMD41 and
\* no step of a 4-byte read moves the driver, and the only step into the
\* halted state is the delay after a 10th non-zero ACMD41 status.
C13_Halted ==
  /\ pc = "halt" =>
        hist.op = "init" /\ hist.nPoll = 10 /\ hist.firstZero = 0 /\ ret # 0
  /\ hist.op = "init" /\ hist.nPoll = 10 /\ hist.firstZero = 0 /\
        Len(hist.log) = 5 + 3 * 10 => pc = "halt"
  /\ InitReturned => hist.log = InitOrder(hist.firstZero, TRUE)

C13_Tolerant ==
  /\ fn # "none" /\ ~(fn = "cmd" /\ cmd = 41) => pc' = pc
  /\ pc # "halt" /\ pc' = "halt" =>
        pc = "i_delay" /\ cmd = 41 /\ ret # 0 /\ hist.nPoll = 10 /\ hist.firstZero = 0

C13_OnlyPollsFatal == []C13_Halted /\ [][C13_Tolerant]_vars

\* a run has returned although no status of GO_IDLE_STATE, SEND_IF_COND or
\* READ_OCR was the one checked for, every APP_CMD status had error bits and
\* the echo was wrong
C13_Witness == InitReturned /\ hist.allOdd /\ hist.firstZero \in 1..10

\* --------------------------------------------------------------------- C14
WriteCommandSent == hist.op = "write" /\ cmd = SD_WRITE_MULTIPLE_BLOCK
RtReadSent == rt.phase = "read" /\ hist.op = "read" /\ cmd = SD_READ_MULTIPLE_BLOCK

\* on a high-capacity card the read of a sector other than 0 sends another
\* address than the write of the same sector did
ReadWriteDiffer ==
  RtReadSent /\ isSDHC = 1 /\ rt.S # <<0, 0>> => args = rt.S /\ args # rt.wa

\* C14 as stated: the argument of WRITE_MULTIPLE_BLOCK is S*512 for every S
\* and both values of the capacity flag, so that on a high-capacity card the
\* write and the read of the same sector S # 0 send different addresses.
C14_WriteAddressExact ==
  /\ WriteCommandSent => args[2] % 512 = 0 /\ Div512(args) = Val(hist.S0)
  /\ ReadWriteDiffer

\* C14, amended: the argument of WRITE_MULTIPLE_BLOCK is (S*512) mod 2^32 for
\* every S and both values of the capacity flag, which is S*512 for S < 2^23,
\* so that on a high-capacity card the write and the read of the same sector
\* S # 0 send different addresses.
C14_WriteAddress ==
  /\ WriteCommandSent =>
        /\ args[2] % 512 = 0 /\ Div512(args) = Val(hist.S0) % 8388608
        /\ Val(hist.S0) < 8388608 => Div512(args) = Val(hist.S0)
  /\ ReadWriteDiffer

\* on a high-capacity card, sector 1 was written at address 512 and is read
\* from address 1
C14_Witness ==
  /\ RtReadSent /\ Len(frame) = 8 /\ isSDHC = 1 /\ card.hc
  /\ rt.S = <<0, 1>> /\ rt.wa = <<0, 512>> /\ args = <<0, 1>>

\* on a high-capacity card, the write command for sector 2^23 + 1 has been
\* sent with address 512
C14_WitnessWrap ==
  /\ WriteCommandSent /\ Len(frame) = 8 /\ isSDHC = 1
  /\ hist.S0 = <<128, 1>> /\ args = <<0, 512>>

\* --------------------------------------------------------------------- C15
\* the order of a read of n blocks from protocol address a
ReadOrder(a, n) ==
  << <<"cmd", 18, a>> >> \o [k \in 1..n |-> <<"rd", 512 * (k - 1), <<0, 0>>>>]
     \o << <<"cmd", 12, <<0, 0>>>> >>

ReadStopped == (pc = "r_busy" /\ fn = "none") \/ pc = "r_desel"
ReadReturned == pc = "idle" /\ hist.op = "read"

\* C15: (read sequence and stop) what SD_ReadSectors(buf, S, count) has sent
\* and received is at every moment a prefix of: one READ_MULTIPLE_BLOCK, count
\* blocks read to the offsets 0, 512, ..., one STOP_TRANSMISSION(0); it is the
\* whole sequence once STOP_TRANSMISSION has returned; the call deselects and
\* returns only after an exchange following STOP_TRANSMISSION has received a
\* non-zero byte. The status of READ_MULTIPLE_BLOCK has no part in it.
C15_ReadSequence ==
  hist.op = "read" =>
    /\ IsPrefix(hist.log, ReadOrder(sector, Len(rbuf)))
    /\ ReadStopped \/ ReadReturned =>
          hist.log = ReadOrder(sector, Len(rbuf)) /\ count = 0
    /\ pc = "r_desel" \/ ReadReturned => lastRx # 0 /\ hist.nWait >= 1
    /\ hist.nDesel > 0 => ReadReturned
    /\ pc \in {"r_data", "r_crc1", "r_crc2"} => off = 512 * (Len(rbuf) - count)

\* a read of 2 blocks has returned although the status of READ_MULTIPLE_BLOCK
\* was not 0
C15_Witness ==
  /\ ReadReturned /\ Len(rbuf) = 2 /\ hist.rdBad
  /\ Len(hist.log) = 4 /\ hist.log[3] = <<"rd", 512, <<0, 0>>>>

\* a read of 0 blocks has returned
C15_WitnessNone == ReadReturned /\ Len(rbuf) = 0 /\ Len(hist.log) = 2

\* --------------------------------------------------------------------- C16
\* k WRITE_MULTIPLE_BLOCK commands for address a, each with its delay
RECURSIVE WriteCmds(_, _)
WriteCmds(a, k) ==
  IF k = 0 THEN <<>>
  ELSE << <<"cmd", 25, a>>, <<"delay", 5, <<0, 0>>>> >> \o WriteCmds(a, k - 1)

\* the data phase of a write of n blocks
RECURSIVE WriteBlocks(_, _)
WriteBlocks(j, n) ==
  IF j = n THEN <<>>
  ELSE << <<"tx", 252, <<0, 0>>>>, <<"wr", 512 * j, <<0, 0>>>>,
          <<"tx", 255, <<0, 0>>>>, <<"tx", 255, <<0, 0>>>> >> \o WriteBlocks(j + 1, n)

DataOrder(n) ==
  << <<"tx", 255, <<0, 0>>>> >> \o WriteBlocks(0, n)
     \o << <<"tx", 253, <<0, 0>>>>, <<"tx", 255, <<0, 0>>>> >>

WriteStopped == hist.op = "write" /\ pc \in {"w_busy", "w_desel"}
WriteReturned == pc = "idle" /\ hist.op = "write"

\* C16: (write data-phase order) after the zero status to
\* WRITE_MULTIPLE_BLOCK, what SD_WriteSectors(buf, S, count) transmits is at
\* every moment a prefix of: one filler 0xFF, then for i = 0 .. count-1 the
\* token 0xFC, the block at buffer offset 512*i and 2 fillers, then one stop
\* token 0xFD and one filler; it is the whole sequence when the wait for a
\* non-zero byte begins, and the call deselects and returns only after an
\* exchange of that wait has received a non-zero byte.
C16_WriteOrder ==
  hist.op = "write" =>
    /\ ~WriteDataPhase => IsPrefix(hist.log, WriteCmds(sector, hist.nWrCmd))
    /\ WriteDataPhase =>
          /\ Len(hist.log) >= 2 * hist.nWrCmd
          /\ IsPrefix(hist.log, WriteCmds(sector, hist.nWrCmd) \o DataOrder(Len(wbuf)))
    /\ WriteStopped \/ WriteReturned =>
          /\ hist.log = WriteCmds(sector, hist.nWrCmd) \o DataOrder(Len(wbuf))
          /\ count = 0
    /\ pc = "w_desel" \/ WriteReturned => lastRx # 0 /\ hist.nWait >= 1
    /\ hist.nDesel > 0 => WriteReturned
    /\ pc \in {"w_data", "w_crc1", "w_crc2"} => off = 512 * (Len(wbuf) - count)

\* a write of 2 blocks has returned: 1 command, 1 delay and 12 items of the
\* data phase
C16_Witness ==
  /\ WriteReturned /\ Len(wbuf) = 2 /\ hist.nWrCmd = 1 /\ Len(hist.log) = 2 + 1 + 8 + 2
  /\ hist.log[8] = <<"tx", 252, <<0, 0>>>> /\ hist.log[9] = <<"wr", 512, <<0, 0>>>>

\* a write of 0 blocks has returned: the stop token follows the first filler
C16_WitnessNone ==
  /\ WriteReturned /\ Len(wbuf) = 0 /\ hist.nWrCmd = 1
  /\ hist.log[3] = <<"tx", 255, <<0, 0>>>> /\ hist.log[4] = <<"tx", 253, <<0, 0>>>>

\* --------------------------------------------------------------------- C17
\* C17: (capacity flag frame) the only step that changes isSDHC is the
\* assignment at the end of an SD_Init run, after its final OCR read; no step
\* of SD_ReadSectors, SD_WriteSectors, SD_SendCommand or
\* SD_GetResponseR3orR7 changes it, so that during every transfer it has the
\* value it had when the transfer was called.
C17_Step ==
  /\ isSDHC' # isSDHC => pc = "i_cap" /\ pc' = "i_desel" /\ ready'
  /\ fn # "none" => isSDHC' = isSDHC
  /\ hist.op \in {"read", "write"} /\ pc # "idle" => isSDHC' = isSDHC
  /\ pc = "idle" => isSDHC' = isSDHC

C17_Kept == hist.op \in {"read", "write"} => isSDHC = hist.flag0

C17_FlagFrame == []C17_Kept /\ [][C17_Step]_vars

\* a write, called with the flag set by an earlier SD_Init, has returned with
\* the flag still set
C17_Witness ==
  /\ pc = "idle" /\ hist.op = "write" /\ hist.nDesel = 1
  /\ ready /\ hist.flag0 = 1 /\ isSDHC = 1

\* --------------------------------------------------------------------- C18
\* the call in progress waits for a byte this card never sends
Blocked ==
  \/ card.mode = "noToken" /\ hist.op = "read" /\ Len(rbuf) > 0
  \/ card.mode = "busy" /\ hist.op \in {"read", "write"}
  \/ card.mode = "refuse" /\ hist.op = "write"

ReadWaiting  == pc = "r_loop" /\ fn = "none" /\ count # 0
BusyWaiting  == (pc = "r_busy" /\ fn = "none") \/ pc = "w_busy"
WriteTrying  == pc \in {"w_cmd", "w_delay"}

C18_Safe ==
  /\ pc = "r_data" => lastRx = 254
  /\ pc \in {"r_desel", "w_desel"} \/ TransferReturned => lastRx # 0
  /\ WriteDataPhase => ret = 0
  /\ ReadReturned => hist.log = ReadOrder(sector, Len(rbuf))
  /\ Blocked => /\ pc # "idle" /\ rv = <<>> /\ hist.nDesel = 0
                /\ pc \notin {"r_select", "w_select"} => selected

C18_Stay ==
  /\ card.mode = "noToken" /\ ReadWaiting => ReadWaiting'
  /\ card.mode = "busy" /\ BusyWaiting => BusyWaiting'
  /\ card.mode = "refuse" /\ WriteTrying => WriteTrying'

\* C18: (blocking and termination of transfers) a read returns only after a
\* data token 0xFE for each of its blocks and a non-zero byte after
\* STOP_TRANSMISSION, a write only after a zero status to
\* WRITE_MULTIPLE_BLOCK and a non-zero byte after the stop token; against a
\* card that sends these bytes every call returns; against a card that never
\* sends one of them the call that waits for it reaches the wait and stays in
\* it for ever, with the card selected and without returning any value.
C18_Blocking ==
  /\ []C18_Safe
  /\ [][C18_Stay]_vars
  /\ (hist.op \in {"read", "write"} /\ ~Blocked) ~> pc = "idle"
  /\ (card.mode = "noToken" /\ Blocked) ~> [](ReadWaiting /\ selected)
  /\ (card.mode = "busy" /\ Blocked) ~> [](BusyWaiting /\ selected)
  /\ (card.mode = "refuse" /\ Blocked) ~> [](WriteTrying /\ selected)

\* a read of 2 blocks has returned after the card let it wait for each token
\* and for the end of the busy state
C18_Witness ==
  /\ ReadReturned /\ card.mode = "store" /\ Len(rbuf) = 2
  /\ hist.nOther = MaxWait /\ rv = <<0>>

\* the three waits that never end
C18_WitnessToken  == card.mode = "noToken" /\ ReadWaiting /\ hist.nWait = MaxWait
C18_WitnessBusy   == card.mode = "busy" /\ BusyWaiting /\ hist.nWait = MaxWait
C18_WitnessRefuse == card.mode = "refuse" /\ WriteTrying /\ hist.nBad = MaxRetry + 1

\* --------------------------------------------------------------------- C19
\* the commands whose argument is a byte address
ByteAddressed == WriteCommandSent \/ (ReadCommandSent /\ isSDHC = 0)

\* C19: (32-bit address arithmetic) the byte address sent by SD_WriteSectors,
\* and by SD_ReadSectors under the standard-capacity flag, is (S*512) mod
\* 2^32: a multiple of 512 whose quotient by 512 is S mod 2^23. For
\* S >= 2^23 it differs from S*512, and the sectors 1 and 2^23 + 1 are sent
\* the same address 512.
C19_AddressWrap ==
  ByteAddressed =>
    /\ args[2] % 512 = 0
    /\ Div512(args) = Val(hist.S0) % 8388608
    /\ Val(hist.S0) >= 8388608 => Div512(args) # Val(hist.S0)
    /\ hist.S0 \in {<<0, 1>>, <<128, 1>>} => args = <<0, 512>>

\* under the standard-capacity flag the write command for sector 2^23 + 1 has
\* gone out with the address bytes 00 00 02 00
C19_Witness ==
  /\ WriteCommandSent /\ Len(frame) = 8 /\ isSDHC = 0 /\ hist.S0 = <<128, 1>>
  /\ SubSeq(frame, 2, 5) = <<0, 0, 2, 0>>

\* ... and so has the write command for sector 1
C19_WitnessLow ==
  /\ WriteCommandSent /\ Len(frame) = 8 /\ isSDHC = 0 /\ hist.S0 = <<0, 1>>
  /\ SubSeq(frame, 2, 5) = <<0, 0, 2, 0>>

\* --------------------------------------------------------------------- C20
\* C20: (halted state) when SD_Init is halted, the card is selected and
\* SPI1_Deselect has not been called, what the run has sent ends with the
\* delay of the 10th poll, without a final READ_OCR, and the capacity flag has
\* the value it had when the run began; from then on nothing changes: no
\* byte is exchanged, the card stays selected, the flag keeps its value.
C20_AtHalt ==
  pc = "halt" =>
    /\ hist.op = "init" /\ fn = "none"
    /\ selected /\ hist.nSel = 1 /\ hist.nDesel = 0
    /\ hist.log = InitOrder(10, FALSE)
    /\ isSDHC = hist.flag0

C20_Frozen ==
  pc = "halt" =>
    /\ pc' = "halt" /\ selected' /\ isSDHC' = isSDHC
    /\ hist' = hist /\ lastRx' = lastRx /\ frame' = frame

C20_HaltedForever ==
  /\ []C20_AtHalt
  /\ [][C20_Frozen]_vars
  /\ [](pc = "halt" => [](pc = "halt" /\ selected))

\* a run is halted after an earlier run had set the capacity flag
C20_Witness == pc = "halt" /\ ready /\ hist.flag0 = 1 /\ isSDHC = 1 /\ selected

====
